---- MODULE Spec2Model ----
(***************************************************************************)
(* Dynamic SOP generation of MetaGPT: metagpt/dynamic_sop.py (RoleInspector *)
(* and DynamicSOP) and metagpt/utils/feedback_collector.py (Prompt,         *)
(* FeedbackRegistry, llm_feedback_loop).                                    *)
(*                                                                          *)
(* Python objects live in heaps (sequences indexed by reference), so that   *)
(* aliasing and in-place mutation are visible.  Python dicts are sequences  *)
(* of [k, v] entries in insertion order.  Subtask descriptions are TLA+     *)
(* strings joined with \o, as the code joins them; the texts exchanged with *)
(* the reasoning service and the reviewer are sequences of string tokens.   *)
(***************************************************************************)
EXTENDS Integers, Sequences, FiniteSets, TLC

VARIABLES
    \* RoleInspector and the roles package it scans
    directory,         \* the files os.walk finds under metagpt/roles, in walk order
    agents,            \* DynamicSOP.agents: the scanner's records
    \* DynamicSOP
    all_agents,        \* DynamicSOP.all_agents: the registry load_agents builds
    domain,            \* DynamicSOP.domain
    heap,              \* the dict objects json.loads created for one plan, by reference
    req_agents,        \* DynamicSOP.req_agents: the raw plan, a list of references
    req_agents_dedup,  \* DynamicSOP.req_agents_dedup: dict name -> reference
    agent_instances,   \* DynamicSOP.agent_instances: the assembled team
    \* one run of generate_dynamic_sop
    pc,                \* position of the run
    exc,               \* the exception that ended the run, "" if none
    idea,              \* the idea argument of the run
    cur,               \* reference of the Prompt of the stage under way (0: none)
    depth,             \* nesting of the stage's recursive calls
    response,          \* the reasoning service's answer under review
    queries,           \* the queries of this run sent to the reasoning service
    runs,              \* runs of generate_dynamic_sop started
    llm_calls,         \* calls of llm.aask made by the process
    \* feedback_collector
    collect_feedback_flag,  \* FEEDBACK_REGISTRY.collect_feedback
    logs,              \* FEEDBACK_REGISTRY.logs: dict key -> {prompt, feedback}
    prompts,           \* the Prompt objects, by reference
    consulted,         \* times the reviewer was asked for a verdict
    \* software_company
    collect_feedback_opt,   \* the collect_feedback argument of generate_repo
    \* calls of agg_agents made by a holder of the raw plan
    reagg,             \* result of aggregating req_agents_dedup.values() again
    agg_calls          \* number of agg_agents calls made on req_agents

scanVars == <<directory, agents>>
sopVars == <<all_agents, domain, agent_instances>>
planVars == <<heap, req_agents, req_agents_dedup>>
runVars == <<pc, exc, idea, cur, depth, response, queries, runs, llm_calls>>
fbVars == <<collect_feedback_flag, logs, prompts, consulted>>
aggVars == <<reagg, agg_calls>>

repoVars == <<collect_feedback_opt>>

vars == <<scanVars, sopVars, planVars, runVars, fbVars, aggVars, repoVars>>

\* an attribute that is not assigned yet (or None), and one that holds a value
Unset == [set |-> FALSE]
Some(x) == [set |-> TRUE, val |-> x]

----------------------------------------------------------------------------
(* Bounds *)
MaxPlan == 4        \* longest raw plan
MaxAggCalls == 2    \* calls of agg_agents on one raw plan
MaxTeamPlan == 3    \* longest plan the reasoning service answers with
MaxQueries == 4     \* calls of the reasoning service by one process
MaxReviews == 3     \* reviewer rounds of one process

----------------------------------------------------------------------------
(* Data *)
RoleNames ==
    {"ProductManager", "Architect", "Engineer", "QaEngineer", "DataInterpreter"}

\* One subtask object of the reasoning service's JSON answer.  The variant
\* v fixes every field but the agent, so that two entries of one agent can
\* disagree on all of them; subtask_number runs against the variant.
SubtaskAssignment(name, v) ==
    [subtask_number      |-> 3 - v,
     subtask_description |-> IF v = 1 THEN "desc1" ELSE "desc2",
     agent               |-> name,
     skill               |-> IF v = 1 THEN "skill1" ELSE "skill2",
     actions             |-> IF v = 1 THEN <<"WritePRD">> ELSE <<"WriteDesign">>,
     watch_items         |-> IF v = 1 THEN <<"UserRequirement">> ELSE <<"WritePRD">>,
     trigger             |-> IF v = 1 THEN "trigger1" ELSE "trigger2"]

AggNames == {"ProductManager", "Architect", "Engineer", "QaEngineer"}

SubtaskObjects == {SubtaskAssignment(n, v) : n \in AggNames, v \in 1..2}

SeqsUpTo(S, n) == UNION {[1..k -> S] : k \in 0..n}

RawPlans == SeqsUpTo(SubtaskObjects, MaxPlan)

\* list(range) of references to the objects of a heap
Refs(h) == [i \in 1..Len(h) |-> i]

----------------------------------------------------------------------------
(* dict helpers *)
Keys(d) == [i \in 1..Len(d) |-> d[i].k]
Values(d) == [i \in 1..Len(d) |-> d[i].v]
HasKey(d, key) == \E i \in 1..Len(d) : d[i].k = key
Get(d, key) == d[CHOOSE i \in 1..Len(d) : d[i].k = key].v

----------------------------------------------------------------------------
(* DynamicSOP.agg_agents *)

\* agg_item with the later description put in front of the earlier ones
agg_item_prepend(st, item) ==
    LET name == st.h[item].agent IN
    IF HasKey(st.d, name)
    THEN [st EXCEPT !.h[Get(st.d, name)].subtask_description =
                        st.h[item].subtask_description \o ". " \o @]
    ELSE [st EXCEPT !.d = Append(@, [k |-> name, v |-> item])]

\* agg_item without the membership test: every entry gets its own slot
agg_item_nodedup(st, item) ==
    [st EXCEPT !.d = Append(@, [k |-> st.h[item].agent, v |-> item])]

\* agg_item with the else dropped: the description is appended for a new
\* name too
agg_item_noelse(st, item) ==
    LET name == st.h[item].agent
        d1 == IF HasKey(st.d, name) THEN st.d
              ELSE Append(st.d, [k |-> name, v |-> item])
    IN [h |-> [st.h EXCEPT ![Get(d1, name)].subtask_description =
                        @ \o ". " \o st.h[item].subtask_description],
        d |-> d1]

\* agg_item where a repeated name takes the later entry's other fields
agg_item_lastwins(st, item) ==
    LET name == st.h[item].agent IN
    IF HasKey(st.d, name)
    THEN [st EXCEPT !.h[Get(st.d, name)] =
                        [st.h[item] EXCEPT !.subtask_description =
                            st.h[Get(st.d, name)].subtask_description \o ". " \o @]]
    ELSE [st EXCEPT !.d = Append(@, [k |-> name, v |-> item])]

\* one iteration of the for loop: st = [h |-> heap, d |-> final_agents]
agg_item(st, item) ==
    LET name == st.h[item].agent IN
    IF HasKey(st.d, name)
    THEN [st EXCEPT !.h[Get(st.d, name)].subtask_description =
                        @ \o ". " \o st.h[item].subtask_description]
    ELSE [st EXCEPT !.d = Append(@, [k |-> name, v |-> item])]

RECURSIVE agg_loop(_, _, _)
agg_loop(st, items, i) ==
    IF i > Len(items) THEN st
    ELSE agg_loop(agg_item(st, items[i]), items, i + 1)

\* returns [h |-> the heap after the call, d |-> final_agents]
agg_agents(h, items) == agg_loop([h |-> h, d |-> <<>>], items, 1)

----------------------------------------------------------------------------
(* RoleInspector: the roles package and its scan *)

\* A statement of a method body.  An expression statement that calls an
\* attribute: attr is the attribute's name, arg the form of the first
\* argument ("list", "set": a literal of names, elts; "call": a constructor
\* call, elts holding its name; "other") ...
Call(attr, arg, elts) ==
    [kind |-> "call", attr |-> attr, arg |-> arg, elts |-> elts, body |-> <<>>]

\* ... or an if statement with the statements of its body
If(body) ==
    [kind |-> "if", attr |-> "", arg |-> "", elts |-> <<>>, body |-> body]

\* a Role subclass: its name, its goal or desc, and the statements of its
\* methods in source order
RoleClassDef(name, skill, body) ==
    [name |-> name, skill |-> skill, body |-> body]

\* a Role subclass whose __init__ calls self.set_actions([...]) and
\* self._watch([...]) at its top level
RoleClass(name, skill, actions, watches) ==
    RoleClassDef(name, skill, <<Call("set_actions", "list", actions),
                                Call("_watch", "list", watches)>>)

\* get_actions, lines 89-97 and 111-119: the names a set_actions call adds
set_actions_of(stmt) ==
    IF stmt.kind = "call" /\ stmt.attr = "set_actions"
          /\ stmt.arg \in {"list", "set", "call"}
    THEN stmt.elts ELSE <<>>

\* get_actions, lines 100-105: the names a _watch call adds
watch_of(stmt) ==
    IF stmt.kind = "call" /\ stmt.attr = "_watch" /\ stmt.arg \in {"list", "set"}
    THEN stmt.elts ELSE <<>>

\* get_actions, lines 109-119: the loop over the body of an if statement
RECURSIVE if_actions(_)
if_actions(if_body) ==
    IF Len(if_body) = 0 THEN <<>>
    ELSE set_actions_of(Head(if_body)) \o if_actions(Tail(if_body))

\* get_actions, lines 80-119: the loop over the statements of the methods;
\* returns [actions, watches]
RECURSIVE get_actions_loop(_)
get_actions_loop(stmts) ==
    IF Len(stmts) = 0 THEN [actions |-> <<>>, watches |-> <<>>]
    ELSE LET stmt == Head(stmts)
             rest == get_actions_loop(Tail(stmts))
         IN IF stmt.kind = "call"
            THEN [actions |-> set_actions_of(stmt) \o rest.actions,
                  watches |-> watch_of(stmt) \o rest.watches]
            ELSE IF stmt.kind = "if"
            THEN [actions |-> if_actions(stmt.body) \o rest.actions,
                  watches |-> rest.watches]
            ELSE rest

\* RoleInspector.get_actions
get_actions(node) == get_actions_loop(node.body)

\* a source file: the directory it is in relative to metagpt/roles ("" for
\* the package directory itself), its name as tokens, whether its content is
\* Python that ast.parse accepts, and its Role classes
RoleFile(dir, stem, classes) ==
    [dir |-> dir, file_name |-> <<stem, ".py">>, parseable |-> TRUE,
     classes |-> classes]

\* a .py file with a syntax error
BrokenFile(dir, stem) ==
    [dir |-> dir, file_name |-> <<stem, ".py">>, parseable |-> FALSE,
     classes |-> <<>>]

\* a file that is not Python source
OtherFile(dir, stem, ext) ==
    [dir |-> dir, file_name |-> <<stem, ext>>, parseable |-> FALSE,
     classes |-> <<>>]

\* The files that may be present, in the order os.walk visits them: the
\* package directory first, then its subdirectories.
RoleFiles ==
    << RoleFile("", "product_manager",
         <<RoleClass("ProductManager", "create a PRD",
                     <<"PrepareDocuments", "WritePRD">>, <<"UserRequirement">>)>>),
       RoleFile("", "architect",
         <<RoleClass("Architect", "design the system",
                     <<"WriteDesign">>, <<"WritePRD">>)>>),
       RoleFile("", "engineer",
         <<RoleClass("Engineer", "write code",
                     <<"WriteCode">>, <<"WriteTasks">>)>>),
       RoleFile("", "qa_engineer",
         <<RoleClass("QaEngineer", "write tests",
                     <<"WriteTest">>, <<"SummarizeCode">>)>>),
       RoleFile("di", "data_interpreter",
         <<RoleClass("DataInterpreter", "analyse data",
                     <<"WriteAnalysisCode">>, <<"UserRequirement">>)>>),
       RoleFile("ext", "engineer",
         <<RoleClass("Engineer", "write firmware",
                     <<"WriteCode">>, <<"WriteDesign">>)>>) >>

\* the sub-sequence of RoleFiles with the indices in S
RECURSIVE FilesAt(_, _)
FilesAt(S, i) ==
    IF i > Len(RoleFiles) THEN <<>>
    ELSE (IF i \in S THEN <<RoleFiles[i]>> ELSE <<>>) \o FilesAt(S, i + 1)

Directories == {FilesAt(S, 1) : S \in SUBSET (1..Len(RoleFiles))}

\* A role that configures itself at the top level of a method, inside an if
\* statement and inside an if statement of that one:
\*     self.set_actions([CollectLinks])
\*     if cond:
\*         self.set_actions([WebBrowseAndSummarize])
\*         self._watch([UserRequirement])
\*         if cond2:
\*             self.set_actions([ConductResearch])
\*             self._watch([CollectLinks])
ResearcherFile ==
    RoleFile("", "researcher",
      <<RoleClassDef("Researcher", "collect information",
          <<Call("set_actions", "list", <<"CollectLinks">>),
            If(<<Call("set_actions", "list", <<"WebBrowseAndSummarize">>),
                 Call("_watch", "list", <<"UserRequirement">>),
                 If(<<Call("set_actions", "list", <<"ConductResearch">>),
                      Call("_watch", "list", <<"CollectLinks">>)>>)>>)>>)>>)

\* The files a roles directory under scan may hold, in walk order: those of
\* RoleFiles, and after the first of them a broken .py file, a text file and
\* researcher.py.
ScanFiles ==
    <<Head(RoleFiles), BrokenFile("", "draft"), OtherFile("", "README", ".md"),
      ResearcherFile>>
    \o Tail(RoleFiles)

\* the sub-sequence of files with the indices in S
RECURSIVE Pick(_, _, _)
Pick(files, S, i) ==
    IF i > Len(files) THEN <<>>
    ELSE (IF i \in S THEN <<files[i]>> ELSE <<>>) \o Pick(files, S, i + 1)

ScanDirectories == {Pick(ScanFiles, S, 1) : S \in SUBSET (1..Len(ScanFiles))}

\* file.endswith('.py')
endswith_py(file_name) ==
    Len(file_name) > 0 /\ file_name[Len(file_name)] = ".py"

\* RoleInspector.process_file: ast.parse raises SyntaxError on a file it
\* cannot parse (line 172, not caught); otherwise one record per Role class
\* of the file.  Returns [exc, records].
process_file(file) ==
    IF ~file.parseable THEN [exc |-> "SyntaxError", records |-> <<>>]
    ELSE [exc |-> "",
          records |->
            [i \in 1..Len(file.classes) |->
                [agent     |-> file.classes[i].name,
                 skill     |-> file.classes[i].skill,
                 action    |-> get_actions(file.classes[i]).actions,
                 watch     |-> get_actions(file.classes[i]).watches,
                 file_name |-> file.file_name]]]

\* the loops of get_all_role_summary; an exception of process_file leaves
\* the method and role_class_data is lost
RECURSIVE scan_loop(_, _, _)
scan_loop(st, dir, i) ==
    IF i > Len(dir) \/ st.exc # "" THEN st
    ELSE IF ~endswith_py(dir[i].file_name) THEN scan_loop(st, dir, i + 1)
    ELSE LET r == process_file(dir[i]) IN
         IF r.exc # "" THEN [exc |-> r.exc, records |-> <<>>]
         ELSE scan_loop([st EXCEPT !.records = @ \o r.records], dir, i + 1)

\* RoleInspector.get_all_role_summary: [exc |-> the exception raised or "",
\* records |-> role_class_data]
get_all_role_summary(dir) == scan_loop([exc |-> "", records |-> <<>>], dir, 1)

----------------------------------------------------------------------------
(* DynamicSOP.get_all_agents and DynamicSOP.load_agents *)

\* an assignment that leaves an existing key as it is
DictSet_keepfirst(d, key, value) ==
    IF HasKey(d, key) THEN d ELSE Append(d, [k |-> key, v |-> value])

\* d[key] = value: an existing key keeps its place
DictSet(d, key, value) ==
    IF HasKey(d, key)
    THEN [i \in 1..Len(d) |-> IF d[i].k = key THEN [k |-> key, v |-> value] ELSE d[i]]
    ELSE Append(d, [k |-> key, v |-> value])

RECURSIVE get_all_agents(_)
get_all_agents(list_of_agents) ==
    IF Len(list_of_agents) = 0 THEN <<>>
    ELSE LET item == list_of_agents[Len(list_of_agents)]
             front == SubSeq(list_of_agents, 1, Len(list_of_agents) - 1)
         IN DictSet(get_all_agents(front), item.agent,
                    [skill     |-> item.skill,
                     action    |-> item.action,
                     watch     |-> item.watch,
                     file_name |-> item.file_name])

\* file_name.split('.py')[0]: the tokens before the first ".py"
RECURSIVE split_py_first(_)
split_py_first(file_name) ==
    IF Len(file_name) = 0 \/ Head(file_name) = ".py" THEN <<>>
    ELSE <<Head(file_name)>> \o split_py_first(Tail(file_name))

\* importlib.import_module(f'metagpt.roles.{agent_file}'): the module is the
\* file of that name in the package directory; Unset: ModuleNotFoundError
import_module(dir, agent_file) ==
    LET hits == SelectSeq(dir, LAMBDA f : f.dir = "" /\ f.file_name = agent_file \o <<".py">>)
    IN IF Len(hits) = 0 THEN Unset ELSE Some(hits[1])

\* hasattr(module, agent_class)
has_class(module, agent_class) ==
    \E i \in 1..Len(module.classes) : module.classes[i].name = agent_class

\* the flag computed from the workers ahead of the first one only
use_code_review_if_first(req) == Len(req) > 0 /\ req[1].k = "QaEngineer"

\* "QaEngineer" in req_agents.keys()
use_code_review(req) == HasKey(req, "QaEngineer")

N_BORG == 5

\* agent(n_borg=5, use_code_review=use_code_review) for Engineer, agent() otherwise
construct(agent_class, ucr) ==
    IF agent_class = "Engineer"
    THEN [cls |-> agent_class, kwargs |-> [n_borg |-> N_BORG, use_code_review |-> ucr]]
    ELSE [cls |-> agent_class, kwargs |-> <<>>]

\* an exception leaves load_agents: the list built so far is lost
raise(name) == [exc |-> name, instances |-> <<>>]

\* load_one that passes over a name the registry does not have
load_one_skip(st, dir, registry, agent_class, ucr) ==
    IF ~HasKey(registry, agent_class) THEN st
    ELSE LET agent_file == split_py_first(Get(registry, agent_class).file_name)
             module == import_module(dir, agent_file)
         IN IF ~module.set THEN raise("ModuleNotFoundError")
            ELSE IF ~has_class(module.val, agent_class)
            THEN raise("AttributeError")
            ELSE [st EXCEPT !.instances = Append(@, construct(agent_class, ucr))]

\* one iteration of the loop of load_agents; st = [exc, instances]
load_one(st, dir, registry, agent_class, ucr) ==
    IF ~HasKey(registry, agent_class) THEN raise("KeyError")
    ELSE LET agent_file == split_py_first(Get(registry, agent_class).file_name)
             module == import_module(dir, agent_file)
         IN IF ~module.set THEN raise("ModuleNotFoundError")
            ELSE IF ~has_class(module.val, agent_class)
            THEN raise("AttributeError")
            ELSE [st EXCEPT !.instances = Append(@, construct(agent_class, ucr))]

RECURSIVE load_loop(_, _, _, _, _)
load_loop(st, dir, registry, req, i) ==
    IF i > Len(req) \/ st.exc # "" THEN st
    ELSE load_loop(load_one(st, dir, registry, req[i].k, use_code_review(req)),
                   dir, registry, req, i + 1)

\* returns [exc |-> the exception raised or "", instances |-> the list built]
load_agents(dir, scanned, req) ==
    load_loop([exc |-> "", instances |-> <<>>], dir, get_all_agents(scanned), req, 1)

----------------------------------------------------------------------------
(* Texts: the reasoning service and the reviewer exchange strings, modelled  *)
(* as sequences of tokens.                                                   *)

SUPPORTED_DOMAINS == {<<"software engineering">>}

\* the membership test comparing without regard to case
supported_nocase(dom) ==
    dom \in SUPPORTED_DOMAINS \/ dom = <<"Software Engineering">>

\* domain in self.SUPPORTED_DOMAINS
supported(dom) == dom \in SUPPORTED_DOMAINS

Whitespace == {" ", "\n", "\t"}

\* str.strip()
RECURSIVE lstrip(_)
lstrip(text) ==
    IF Len(text) > 0 /\ Head(text) \in Whitespace THEN lstrip(Tail(text)) ELSE text

RECURSIVE rstrip(_)
rstrip(text) ==
    IF Len(text) > 0 /\ text[Len(text)] \in Whitespace
    THEN rstrip(SubSeq(text, 1, Len(text) - 1)) ELSE text

\* strip that also folds the label to lower case
strip_casefold(text) ==
    [i \in 1..Len(rstrip(lstrip(text))) |->
        IF rstrip(lstrip(text))[i] = "Software Engineering"
        THEN "software engineering" ELSE rstrip(lstrip(text))[i]]

strip(text) == rstrip(lstrip(text))

Ideas == {"create 2048 game", "write a cli snake game"}

\* answers of the reasoning service to a classification query
DomainResponses ==
    { <<"software engineering">>,
      <<" ", "software engineering", "\n">>,
      <<"Software Engineering">>,
      <<"finance">> }

\* the f-string of classify_idea
classify_prompt(task) ==
    <<"Classify the task to one of the domains", "software engineering",
      "Task:", task>>

\* str(self.agents) inside the f-string of assign_agents
RECURSIVE agents_repr(_)
agents_repr(scanned) ==
    IF Len(scanned) = 0 THEN <<>>
    ELSE <<Head(scanned).agent, Head(scanned).skill>> \o Head(scanned).action
         \o Head(scanned).watch \o Head(scanned).file_name
         \o agents_repr(Tail(scanned))

\* the f-string of assign_agents
assign_prompt(task, dom, scanned) ==
    <<"Assign agents to the project", "Given Task:", task, "Domain:">> \o dom
    \o <<"Agents:">> \o agents_repr(scanned)

\* A plan answer: a fenced JSON array (the fence of three backquotes is the
\* token "FENCE"); each object is written as its agent
\* name followed by the token of its other fields ("1" or "2").
RECURSIVE json_dumps(_)
json_dumps(plan) ==
    IF Len(plan) = 0 THEN <<>>
    ELSE <<Head(plan).agent, IF Head(plan).skill = "skill1" THEN "1" ELSE "2">>
         \o json_dumps(Tail(plan))

PlanText(plan) == <<"FENCE json">> \o json_dumps(plan) \o <<"FENCE">>

\* the plan naming the workers ns; the entries alternate between the variants
PlanOf(ns) ==
    [i \in 1..Len(ns) |-> SubtaskAssignment(ns[i], IF i % 2 = 1 THEN 1 ELSE 2)]

\* an object of an answer that leaves out the keys skill and trigger
PartialAssignment(name) ==
    [subtask_number      |-> 1,
     subtask_description |-> "desc1",
     agent               |-> name,
     actions             |-> <<"WritePRD">>,
     watch_items         |-> <<"UserRequirement">>]

\* answers that are valid JSON arrays with such an object (token "partial")
PartialPlanResponses ==
    { <<"FENCE json", "ProductManager", "partial", "FENCE">>,
      <<"FENCE json", "ProductManager", "1", "Architect", "partial", "FENCE">> }

TeamPlanResponses ==
    {PlanText(PlanOf(ns)) : ns \in SeqsUpTo(RoleNames, MaxTeamPlan)}
    \cup PartialPlanResponses

\* CodeParser.parse_code(block=None, text, lang="json"): the text inside the
\* fence
parse_code(text) ==
    LET open == CHOOSE i \in 1..Len(text) : text[i] = "FENCE json"
                    /\ \A j \in 1..(i - 1) : text[j] # "FENCE json"
        close == CHOOSE i \in (open + 1)..Len(text) : text[i] = "FENCE"
                    /\ \A j \in (open + 1)..(i - 1) : text[j] # "FENCE"
    IN SubSeq(text, open + 1, close - 1)

\* json.loads
json_loads(code) ==
    [i \in 1..(Len(code) \div 2) |->
        IF code[2 * i] = "partial" THEN PartialAssignment(code[2 * i - 1])
        ELSE SubtaskAssignment(code[2 * i - 1], IF code[2 * i] = "1" THEN 1 ELSE 2)]

\* DynamicSOP.parse_assign_agents2
parse_assign_agents2(agents_response) == json_loads(parse_code(agents_response))

----------------------------------------------------------------------------
(* feedback_collector *)

\* md5(prompt.encode()).hexdigest(): a function of the text alone
md5(text) == <<"md5">> \o text

\* Prompt.__init__
Prompt(text) ==
    [prompt |-> text, adjusted_prompt |-> Unset, key |-> md5(text), feedbacks |-> <<>>]

\* add_feedback that keeps the latest round only
add_feedback_replace(p, llm_output, feedback) ==
    [p EXCEPT !.feedbacks = <<[llm_output |-> llm_output, feedback |-> feedback]>>]

\* Prompt.add_feedback
add_feedback(p, llm_output, feedback) ==
    [p EXCEPT !.feedbacks = Append(@, [llm_output |-> llm_output, feedback |-> feedback])]

\* FeedbackRegistry.add: the logged "feedback" is the Prompt's own list, so
\* the log holds the reference of the Prompt
registry_add(lg, ps, ref, llm_response, feedback) ==
    [prompts |-> [ps EXCEPT ![ref] = add_feedback(@, llm_response, feedback.feedback)],
     logs    |-> DictSet(lg, ps[ref].key, [prompt |-> ps[ref].prompt, feedback |-> ref])]

\* str.lower() on the reviewer's answers
ReviewerAnswers == {"yes", "Yes", "no", "y"}
lower(answer) == IF answer = "Yes" THEN "yes" ELSE answer

Corrections == {<<"add error handling">>}

\* collect_feedback: the two input() calls
collect_feedback(answer, correction) ==
    LET is_correct == lower(answer) = "yes"
    IN [is_correct |-> is_correct,
        feedback   |-> IF is_correct THEN Unset ELSE Some(correction)]

\* str() of a feedback that may be None
feedback_str(feedback) == IF feedback.set THEN feedback.val ELSE <<"None">>

\* the joined f-strings over enumerate(prompt.feedbacks[:-1])
RECURSIVE history_text(_, _)
history_text(feedbacks, idx) ==
    IF idx > Len(feedbacks) - 1 THEN <<>>
    ELSE <<"### Response", ToString(idx)>> \o feedbacks[idx].llm_output
         \o <<"### User feedback on your response", ToString(idx)>>
         \o feedback_str(feedbacks[idx].feedback)
         \o history_text(feedbacks, idx + 1)

\* adjust_llm_prompt that extends the text of the previous round
adjust_llm_prompt_chained(p, llm_response, feedback) ==
    (IF p.adjusted_prompt.set THEN p.adjusted_prompt.val
     ELSE <<"Adjust the your response considering user's current feedback.",
            "## User Query:">> \o p.prompt)
    \o <<"## Your response for user request is:">> \o llm_response
    \o <<"## User's has following feedback to be incorporated:">>
    \o feedback_str(feedback.feedback)

\* adjust_llm_prompt, called with an incorrect verdict
adjust_llm_prompt(p, llm_response, feedback) ==
    LET hist == history_text(p.feedbacks, 1)
        historical_feedbacks ==
            IF Len(hist) > 0
            THEN <<"## Your Responses and feedbacks:">> \o hist
                 \o <<"### Based on earlier feedbacks, your response is:">>
                 \o llm_response
            ELSE <<"## Your response for user request is:">> \o llm_response
    IN <<"Adjust the your response considering user's current feedback.",
         "## User Query:">> \o p.prompt \o historical_feedbacks
       \o <<"## User's has following feedback to be incorporated:">>
       \o feedback_str(feedback.feedback)

\* llm_feedback_loop, line 99: return at once unless feedback is collected
returns_early_never(flag) == FALSE
returns_early(flag) == ~flag

\* llm_feedback_loop, lines 127-131: the assignment to prompt.adjusted_prompt
set_adjusted_overwrites_prompt(p, adjusted) ==
    IF adjusted.set THEN [p EXCEPT !.prompt = adjusted.val, !.adjusted_prompt = adjusted]
    ELSE [p EXCEPT !.adjusted_prompt = adjusted]
\* the assignment without its else branch: an accepted answer leaves
\* adjusted_prompt as it was
set_adjusted_keep(p, adjusted) ==
    IF adjusted.set THEN [p EXCEPT !.adjusted_prompt = adjusted] ELSE p

\* the assignment always taking the else branch (line 131)
set_adjusted_none(p, adjusted) == [p EXCEPT !.adjusted_prompt = Unset]
set_adjusted(p, adjusted) == [p EXCEPT !.adjusted_prompt = adjusted]

----------------------------------------------------------------------------
(* The aggregator alone: agg_agents called by the holder of a parsed raw     *)
(* plan, once or again, and on the values of its own result.                *)

InitAgg ==
    /\ heap \in RawPlans
    /\ req_agents = Refs(heap)
    /\ req_agents_dedup = Unset
    /\ reagg = Unset
    /\ agg_calls = 0
    /\ directory = <<>>
    /\ agents = <<>>
    /\ all_agents = Unset
    /\ domain = Unset
    /\ agent_instances = Unset
    /\ pc = "idle"
    /\ exc = ""
    /\ idea = ""
    /\ cur = 0
    /\ depth = 0
    /\ response = <<>>
    /\ queries = <<>>
    /\ runs = 0
    /\ llm_calls = 0
    /\ collect_feedback_flag = FALSE
    /\ logs = <<>>
    /\ prompts = <<>>
    /\ consulted = 0
    /\ collect_feedback_opt = FALSE

\* self.req_agents_dedup = self.agg_agents(self.req_agents)
AggAgents ==
    /\ agg_calls < MaxAggCalls
    /\ LET r == agg_agents(heap, req_agents) IN
        /\ heap' = r.h
        /\ req_agents_dedup' = Some(r.d)
    /\ agg_calls' = agg_calls + 1
    /\ reagg' = Unset
    /\ UNCHANGED <<req_agents, scanVars, sopVars, runVars, fbVars>>
    /\ UNCHANGED repoVars

\* self.agg_agents(list(self.req_agents_dedup.values()))
ReAggregate ==
    /\ req_agents_dedup.set
    /\ ~reagg.set
    /\ LET r == agg_agents(heap, Values(req_agents_dedup.val)) IN
        /\ heap' = r.h
        /\ reagg' = Some(r.d)
    /\ UNCHANGED <<req_agents, req_agents_dedup, agg_calls>>
    /\ UNCHANGED <<scanVars, sopVars, runVars, fbVars>>
    /\ UNCHANGED repoVars

NextAgg == AggAgents \/ ReAggregate

SpecAgg == InitAgg /\ [][NextAgg]_vars

----------------------------------------------------------------------------
(* The scanner alone: DynamicSOP.__init__ over a roles directory that may     *)
(* hold files that are not valid Python.                                     *)

InitScan ==
    /\ directory \in ScanDirectories
    /\ agents = <<>>
    /\ pc = "new"
    /\ heap = <<>>
    /\ req_agents = <<>>
    /\ req_agents_dedup = Unset
    /\ reagg = Unset
    /\ agg_calls = 0
    /\ all_agents = Unset
    /\ domain = Unset
    /\ agent_instances = Unset
    /\ exc = ""
    /\ idea = ""
    /\ cur = 0
    /\ depth = 0
    /\ response = <<>>
    /\ queries = <<>>
    /\ runs = 0
    /\ llm_calls = 0
    /\ collect_feedback_flag = FALSE
    /\ logs = <<>>
    /\ prompts = <<>>
    /\ consulted = 0
    /\ collect_feedback_opt = FALSE

\* self.agents = self.inspector.get_all_role_summary()  (line 211)
Construct ==
    /\ pc = "new"
    /\ LET r == get_all_role_summary(directory) IN
        IF r.exc = ""
        THEN /\ agents' = r.records
             /\ pc' = "idle"
             /\ UNCHANGED exc
        ELSE /\ pc' = "raised"
             /\ exc' = r.exc
             /\ UNCHANGED agents
    /\ UNCHANGED <<directory, sopVars, planVars, aggVars, fbVars>>
    /\ UNCHANGED <<idea, cur, depth, response, queries, runs, llm_calls>>
    /\ UNCHANGED repoVars

NextScan == Construct

SpecScan == InitScan /\ [][NextScan]_vars

----------------------------------------------------------------------------
(* DynamicSOP.generate_dynamic_sop, step by step.  The run is suspended only *)
(* in llm.aask and in the reviewer's input(); pc names the statement the run  *)
(* is at.                                                                    *)

Idle == pc \in {"idle", "returned", "raised"}

\* the state after DynamicSOP.__init__ and the import of feedback_collector
InitRun ==
    /\ get_all_role_summary(directory).exc = ""
    /\ agents = get_all_role_summary(directory).records
    /\ all_agents = Unset
    /\ domain = Unset
    /\ heap = <<>>
    /\ req_agents = <<>>
    /\ req_agents_dedup = Unset
    /\ agent_instances = Unset
    /\ pc = "idle"
    /\ exc = ""
    /\ idea = ""
    /\ cur = 0
    /\ depth = 0
    /\ response = <<>>
    /\ queries = <<>>
    /\ runs = 0
    /\ llm_calls = 0
    /\ collect_feedback_flag = FALSE
    /\ logs = <<>>
    /\ prompts = <<>>
    /\ consulted = 0
    /\ reagg = Unset
    /\ agg_calls = 0

\* generate_dynamic_sop(idea) is called; classify_idea wraps the idea in a
\* new Prompt (lines 398, 214-226)
GenerateDynamicSop(max_runs) ==
    /\ Idle
    /\ runs < max_runs
    /\ llm_calls < MaxQueries
    /\ \E task \in Ideas :
        /\ idea' = task
        /\ prompts' = Append(prompts, Prompt(classify_prompt(task)))
    /\ cur' = Len(prompts) + 1
    /\ depth' = 1
    /\ pc' = "classify"
    /\ exc' = ""
    /\ response' = <<>>
    /\ queries' = <<>>
    /\ runs' = runs + 1
    /\ UNCHANGED <<scanVars, sopVars, planVars, aggVars>>
    /\ UNCHANGED <<llm_calls, collect_feedback_flag, logs, consulted>>
    /\ UNCHANGED repoVars

\* classify_idea returns to generate_dynamic_sop (lines 232-233, 398-399);
\* every frame of the recursion strips the label again
ReturnDomain(r) ==
    /\ domain' = Some(strip(r))
    /\ pc' = "classified"
    /\ exc' = ""
    /\ UNCHANGED <<all_agents, agent_instances, planVars>>

\* assign_agents returns to generate_dynamic_sop (lines 308, 403).  Only the
\* innermost frame parses the answer; a frame that recursed hands the list it
\* got back to parse_assign_agents2, where json.loads takes no list.
ReturnPlan(r) ==
    IF depth > 1
    THEN /\ pc' = "raised"
         /\ exc' = "TypeError"
         /\ UNCHANGED <<sopVars, planVars>>
    ELSE /\ heap' = heap \o parse_assign_agents2(r)
         /\ req_agents' = [i \in 1..Len(parse_assign_agents2(r)) |-> Len(heap) + i]
         /\ pc' = "aggregate"
         /\ exc' = ""
         /\ UNCHANGED <<sopVars, req_agents_dedup>>

ReturnStage(stage, r) ==
    IF stage = "classify" THEN ReturnDomain(r) ELSE ReturnPlan(r)

\* the recursive call always going to classify_idea
Recurse_classify(stage) ==
    /\ pc' = "classify"
    /\ depth' = depth + 1
    /\ response' = <<>>
    /\ exc' = ""
    /\ UNCHANGED <<sopVars, planVars>>

\* the stage calls itself again with its Prompt (lines 231, 307)
Recurse(stage) ==
    /\ pc' = stage
    /\ depth' = depth + 1
    /\ response' = <<>>
    /\ exc' = ""
    /\ UNCHANGED <<sopVars, planVars>>

\* llm.aask answers the query of classify_idea (lines 227-231) or of
\* assign_agents (lines 303-307), and llm_feedback_loop starts (lines 98-121)
AskLLM(domain_answers, plan_answers) ==
    /\ pc \in {"classify", "assign"}
    /\ llm_calls < MaxQueries
    /\ llm_calls' = llm_calls + 1
    /\ ~returns_early(collect_feedback_flag) => consulted < MaxReviews
    /\ \E r \in (IF pc = "classify" THEN domain_answers ELSE plan_answers) :
        LET p == prompts[cur]
            query == IF p.adjusted_prompt.set THEN p.adjusted_prompt.val ELSE p.prompt
        IN /\ queries' = Append(queries, [query |-> query, stream |-> pc = "assign"])
           /\ IF returns_early(collect_feedback_flag)
              THEN /\ UNCHANGED consulted
                   /\ IF p.adjusted_prompt.set
                      THEN Recurse(pc)
                      ELSE /\ ReturnStage(pc, r)
                           /\ response' = <<>>
                           /\ depth' = 0
              ELSE /\ consulted' = consulted + 1
                   /\ response' = r
                   /\ pc' = IF pc = "classify" THEN "classify_review" ELSE "assign_review"
                   /\ UNCHANGED <<exc, depth, sopVars, planVars>>
    /\ UNCHANGED <<scanVars, aggVars, idea, cur, runs>>
    /\ UNCHANGED <<collect_feedback_flag, logs, prompts>>
    /\ UNCHANGED repoVars

\* the failure caught inside the stage, which makes the call again
LLMFails_retry ==
    /\ pc \in {"classify", "assign"}
    /\ llm_calls < MaxQueries
    /\ llm_calls' = llm_calls + 1
    /\ LET p == prompts[cur]
           query == IF p.adjusted_prompt.set THEN p.adjusted_prompt.val ELSE p.prompt
       IN queries' = Append(queries, [query |-> query, stream |-> pc = "assign"])
    /\ UNCHANGED <<pc, exc>>
    /\ UNCHANGED <<scanVars, sopVars, planVars, aggVars, fbVars>>
    /\ UNCHANGED <<idea, cur, depth, response, runs>>
    /\ UNCHANGED repoVars

\* llm.aask raises
LLMFails ==
    /\ pc \in {"classify", "assign"}
    /\ llm_calls < MaxQueries
    /\ llm_calls' = llm_calls + 1
    /\ LET p == prompts[cur]
           query == IF p.adjusted_prompt.set THEN p.adjusted_prompt.val ELSE p.prompt
       IN queries' = Append(queries, [query |-> query, stream |-> pc = "assign"])
    /\ pc' = "raised"
    /\ exc' = "ReasoningServiceError"
    /\ UNCHANGED <<scanVars, sopVars, planVars, aggVars, fbVars>>
    /\ UNCHANGED <<idea, cur, depth, response, runs>>
    /\ UNCHANGED repoVars

\* the reviewer answers; llm_feedback_loop stores the feedback and sets
\* adjusted_prompt (lines 121-131), and the stage goes on (lines 230-233,
\* 306-308)
Review ==
    /\ pc \in {"classify_review", "assign_review"}
    /\ \E answer \in ReviewerAnswers, correction \in Corrections :
        LET stage == IF pc = "classify_review" THEN "classify" ELSE "assign"
            feedback == collect_feedback(answer, correction)
            stored == registry_add(logs, prompts, cur, response, feedback)
            adjusted == IF ~feedback.is_correct
                        THEN Some(adjust_llm_prompt(stored.prompts[cur], response, feedback))
                        ELSE Unset
        IN /\ logs' = stored.logs
           /\ prompts' = [stored.prompts EXCEPT ![cur] = set_adjusted(@, adjusted)]
           /\ IF prompts'[cur].adjusted_prompt.set
              THEN Recurse(stage)
              ELSE /\ ReturnStage(stage, response)
                   /\ response' = <<>>
                   /\ depth' = 0
    /\ UNCHANGED <<scanVars, aggVars, idea, cur, queries, runs, llm_calls>>
    /\ UNCHANGED <<collect_feedback_flag, consulted>>
    /\ UNCHANGED repoVars

\* generate_dynamic_sop, lines 400-411: a supported domain goes on to
\* assign_agents, which wraps its f-string in a new Prompt; any other ends
\* the process with sys.exit(1)
CheckDomain ==
    /\ pc = "classified"
    /\ IF supported(domain.val)
       THEN /\ prompts' = Append(prompts, Prompt(assign_prompt(idea, domain.val, agents)))
            /\ cur' = Len(prompts) + 1
            /\ depth' = 1
            /\ pc' = "assign"
            /\ UNCHANGED exc
       ELSE /\ pc' = "exited"
            /\ exc' = "SystemExit(1)"
            /\ UNCHANGED <<prompts, cur, depth>>
    /\ UNCHANGED <<scanVars, sopVars, planVars, aggVars>>
    /\ UNCHANGED <<idea, response, queries, runs, llm_calls>>
    /\ UNCHANGED <<collect_feedback_flag, logs, consulted>>
    /\ UNCHANGED repoVars

\* self.req_agents_dedup = self.agg_agents(self.req_agents)  (line 404)
Aggregate ==
    /\ pc = "aggregate"
    /\ LET r == agg_agents(heap, req_agents) IN
        /\ heap' = r.h
        /\ req_agents_dedup' = Some(r.d)
    /\ pc' = "load"
    /\ UNCHANGED <<req_agents, scanVars, sopVars, aggVars, fbVars>>
    /\ UNCHANGED <<exc, idea, cur, depth, response, queries, runs, llm_calls>>
    /\ UNCHANGED repoVars

\* LoadAgents taking the records of the workers it loads out of self.agents
LoadAgents_consumes ==
    /\ pc = "load"
    /\ all_agents' = Some(get_all_agents(agents))
    /\ agents' = SelectSeq(agents, LAMBDA a : ~HasKey(req_agents_dedup.val, a.agent))
    /\ LET r == load_agents(directory, agents, req_agents_dedup.val) IN
        IF r.exc = ""
        THEN /\ agent_instances' = Some(r.instances)
             /\ pc' = "returned"
             /\ UNCHANGED exc
        ELSE /\ pc' = "raised"
             /\ exc' = r.exc
             /\ UNCHANGED agent_instances
    /\ UNCHANGED <<domain, directory, planVars, aggVars, fbVars>>
    /\ UNCHANGED <<idea, cur, depth, response, queries, runs, llm_calls>>
    /\ UNCHANGED repoVars

\* self.agent_instances = self.load_agents(self.req_agents_dedup)
\* (lines 405-406, 372-395)
LoadAgents ==
    /\ pc = "load"
    /\ all_agents' = Some(get_all_agents(agents))
    /\ LET r == load_agents(directory, agents, req_agents_dedup.val) IN
        IF r.exc = ""
        THEN /\ agent_instances' = Some(r.instances)
             /\ pc' = "returned"
             /\ UNCHANGED exc
        ELSE /\ pc' = "raised"
             /\ exc' = r.exc
             /\ UNCHANGED agent_instances
    /\ UNCHANGED <<domain, scanVars, planVars, aggVars, fbVars>>
    /\ UNCHANGED <<idea, cur, depth, response, queries, runs, llm_calls>>
    /\ UNCHANGED repoVars

\* a caller assigns FEEDBACK_REGISTRY.collect_feedback between runs
SetCollectFeedback ==
    /\ Idle
    /\ collect_feedback_flag' = ~collect_feedback_flag
    /\ UNCHANGED <<scanVars, sopVars, planVars, runVars, aggVars>>
    /\ UNCHANGED <<logs, prompts, consulted>>
    /\ UNCHANGED repoVars

----------------------------------------------------------------------------
(* One run over every roles package and every plan, feedback collection off *)

Init ==
    /\ directory \in Directories
    /\ collect_feedback_opt = FALSE
    /\ InitRun

Next ==
    \/ GenerateDynamicSop(1)
    \/ AskLLM(DomainResponses, TeamPlanResponses)
    \/ LLMFails
    \/ CheckDomain
    \/ Aggregate
    \/ LoadAgents

Spec == Init /\ [][Next]_vars

----------------------------------------------------------------------------
(* Runs with the reviewer: the whole roles package, a few plans *)

FbPlanResponses ==
    { PlanText(PlanOf(<<"ProductManager", "Architect">>)),
      PlanText(PlanOf(<<"Engineer", "QaEngineer", "Engineer">>)),
      PlanText(PlanOf(<<"DataInterpreter">>)) }

InitFb ==
    /\ directory = RoleFiles
    /\ collect_feedback_opt = FALSE
    /\ InitRun

NextFb ==
    \/ GenerateDynamicSop(MaxQueries)
    \/ SetCollectFeedback
    \/ AskLLM(DomainResponses, FbPlanResponses)
    \/ LLMFails
    \/ Review
    \/ CheckDomain
    \/ Aggregate
    \/ LoadAgents

SpecFb == InitFb /\ [][NextFb]_vars

----------------------------------------------------------------------------
(* generate_repo with dynamic_sop on: the process as startup launches it,    *)
(* with either value of the collect_feedback option.  The registry is as the *)
(* import of feedback_collector made it (collect_feedback False, line 24).   *)
(* The reviewer's step is no part of this specification: no assignment to    *)
(* FEEDBACK_REGISTRY.collect_feedback is made that would let a run reach it. *)

InitRepo ==
    /\ directory \in Directories
    /\ collect_feedback_opt \in BOOLEAN
    /\ InitRun

\* generate_repo, lines 80-152: the collect_feedback argument is read by no
\* statement; DynamicSOP is built and generate_dynamic_sop(idea) is run
GenerateRepo ==
    /\ pc = "idle"
    /\ GenerateDynamicSop(1)

NextRepo ==
    \/ GenerateRepo
    \/ AskLLM(DomainResponses, FbPlanResponses)
    \/ LLMFails
    \/ CheckDomain
    \/ Aggregate
    \/ LoadAgents

SpecRepo == InitRepo /\ [][NextRepo]_vars

----------------------------------------------------------------------------
(* The stages called one by one by a caller that keeps the Prompt objects:   *)
(* classify_idea and assign_agents take a string or a Prompt (lines 213,     *)
(* 249).  classify_idea with a string is the first step of                   *)
(* GenerateDynamicSop.                                                       *)

IsClassifyPrompt(p) == p.prompt[1] = "Classify the task to one of the domains"

\* classify_idea(idea) with idea a Prompt (line 214 is skipped)
ClassifyIdea ==
    /\ Idle
    /\ llm_calls < MaxQueries
    /\ \E p \in 1..Len(prompts) :
        /\ IsClassifyPrompt(prompts[p])
        /\ cur' = p
    /\ depth' = 1
    /\ pc' = "classify"
    /\ exc' = ""
    /\ response' = <<>>
    /\ queries' = <<>>
    /\ UNCHANGED <<scanVars, sopVars, planVars, aggVars, fbVars>>
    /\ UNCHANGED <<idea, runs, llm_calls>>
    /\ UNCHANGED repoVars

\* assign_agents(idea, domain) with the domain classified last and idea a
\* string (lines 251-300) or a Prompt (line 302)
AssignAgents ==
    /\ Idle
    /\ llm_calls < MaxQueries
    /\ domain.set
    /\ \/ /\ prompts' = Append(prompts, Prompt(assign_prompt(idea, domain.val, agents)))
          /\ cur' = Len(prompts) + 1
       \/ /\ \E p \in 1..Len(prompts) :
                /\ ~IsClassifyPrompt(prompts[p])
                /\ cur' = p
          /\ UNCHANGED prompts
    /\ depth' = 1
    /\ pc' = "assign"
    /\ exc' = ""
    /\ response' = <<>>
    /\ queries' = <<>>
    /\ UNCHANGED <<scanVars, sopVars, planVars, aggVars>>
    /\ UNCHANGED <<idea, runs, llm_calls, collect_feedback_flag, logs, consulted>>
    /\ UNCHANGED repoVars

\* the caller has the stage's result
StageReturns ==
    /\ pc \in {"classified", "aggregate"}
    /\ pc' = "returned"
    /\ UNCHANGED <<scanVars, sopVars, planVars, aggVars, fbVars>>
    /\ UNCHANGED <<exc, idea, cur, depth, response, queries, runs, llm_calls>>
    /\ UNCHANGED repoVars

\* the answers of the reasoning service in these calls
StageDomainResponses == {<<"software engineering">>, <<"finance">>}
StagePlanResponses == {PlanText(PlanOf(<<"ProductManager", "Architect">>))}

NextStage ==
    \/ GenerateDynamicSop(MaxQueries)
    \/ ClassifyIdea
    \/ AssignAgents
    \/ SetCollectFeedback
    \/ AskLLM(StageDomainResponses, StagePlanResponses)
    \/ LLMFails
    \/ Review
    \/ StageReturns

SpecStage == InitFb /\ [][NextStage]_vars

----------------------------------------------------------------------------
(* Properties of the aggregator *)

\* the worker names of a list of references, in list order
NamesOf(h, items) == [i \in 1..Len(items) |-> h[items[i]].agent]

\* position of the first entry of a plan that names n
FirstAt(names, n) ==
    CHOOSE i \in 1..Len(names) :
        names[i] = n /\ \A j \in 1..(i - 1) : names[j] # n

\* the descriptions of the entries that name n, in encounter order
DescsOf(h, items, n) ==
    LET mine == SelectSeq(items, LAMBDA r : h[r].agent = n)
    IN [i \in 1..Len(mine) |-> h[mine[i]].subtask_description]

RECURSIVE JoinWith(_, _)
JoinWith(sep, strs) ==
    IF Len(strs) = 0 THEN ""
    ELSE IF Len(strs) = 1 THEN strs[1]
    ELSE strs[1] \o sep \o JoinWith(sep, Tail(strs))

\* a dict of references read through the heap: the entries with their fields
Content(h, d) == [i \in 1..Len(d) |-> [k |-> d[i].k, v |-> h[d[i].v]]]

ScalarFields(obj) ==
    <<obj.subtask_number, obj.skill, obj.actions, obj.watch_items, obj.trigger>>

\* C1: a call of agg_agents yields one entry per distinct worker name,
\* ordered by the first occurrence of the name in the raw plan, and each
\* entry's description is the descriptions the raw entries of that name had
\* at the call, in encounter order, joined by ". ".
C1_OrderAndJoin ==
    [][AggAgents =>
        LET names == NamesOf(heap, req_agents)
            d == req_agents_dedup'.val
        IN /\ Len(d) = Cardinality({names[i] : i \in 1..Len(names)})
           /\ \A a, b \in 1..Len(d) :
                a < b => FirstAt(names, d[a].k) < FirstAt(names, d[b].k)
           /\ \A a \in 1..Len(d) :
                /\ d[a].k = heap'[d[a].v].agent
                /\ heap'[d[a].v].subtask_description =
                        JoinWith(". ", DescsOf(heap, req_agents, d[a].k))]_vars

\* the spec's example [A, B, A, C] after one call
C1_Witness ==
    /\ agg_calls = 1
    /\ Len(req_agents) = 4
    /\ LET names == NamesOf(heap, req_agents) IN
        /\ names[1] = names[3]
        /\ Cardinality({names[1], names[2], names[4]}) = 3
        /\ Keys(req_agents_dedup.val) = <<names[1], names[2], names[4]>>
        /\ heap[Get(req_agents_dedup.val, names[1])].subtask_description
                = "desc1. desc2"

\* C2: aggregating the aggregated assignments again changes nothing: same
\* workers in the same order with the same fields and descriptions.
C2_Idempotent ==
    [][ReAggregate =>
        Content(heap', reagg'.val) = Content(heap, req_agents_dedup.val)]_vars

\* re-aggregation of a plan in which a worker was merged
C2_Witness ==
    /\ reagg.set
    /\ Len(reagg.val) >= 2
    /\ Len(reagg.val) < Len(req_agents)

\* C3: agg_agents leaves every entry of the raw plan as it was given.
C3_RawPlanUnchanged ==
    [][AggAgents =>
        \A i \in 1..Len(req_agents) :
            heap'[req_agents[i]] = heap[req_agents[i]]]_vars

\* C4: the keys of the aggregated plan are exactly the worker names of the
\* raw plan, each once.
C4_NoWorkerDropped ==
    req_agents_dedup.set =>
        LET d == req_agents_dedup.val
            names == NamesOf(heap, req_agents)
        IN /\ {d[i].k : i \in 1..Len(d)} = {names[i] : i \in 1..Len(names)}
           /\ \A a, b \in 1..Len(d) : d[a].k = d[b].k => a = b

\* an aggregated plan of three workers from a raw plan that repeats one
C4_Witness ==
    /\ req_agents_dedup.set
    /\ Len(req_agents_dedup.val) = 3
    /\ Len(req_agents) = 4

\* C5: the aggregated entry of a worker carries the subtask number, skill,
\* actions, watch items and trigger of the worker's first raw entry.
C5_FirstOccurrenceFields ==
    [][AggAgents =>
        LET names == NamesOf(heap, req_agents)
            d == req_agents_dedup'.val
        IN \A a \in 1..Len(d) :
            ScalarFields(heap'[d[a].v]) =
                ScalarFields(heap[req_agents[FirstAt(names, d[a].k)]])]_vars

\* a worker named twice with conflicting fields, aggregated
C5_Witness ==
    /\ agg_calls = 1
    /\ \E i, j \in 1..Len(req_agents) :
        /\ i < j
        /\ heap[req_agents[i]].agent = heap[req_agents[j]].agent
        /\ heap[req_agents[i]].skill # heap[req_agents[j]].skill
        /\ heap[req_agents[i]].subtask_description = "desc1. desc2"

----------------------------------------------------------------------------
(* Properties of team assembly *)

Registry == get_all_agents(agents)

\* the aggregated plan names a worker the registry does not have
UnknownAt(i) == ~HasKey(Registry, req_agents_dedup.val[i].k)

\* C6: when the aggregated plan names a worker that is not in the registry,
\* load_agents raises and no team is assigned to agent_instances, wherever
\* the name stands in the plan; the exception is the KeyError of the first
\* such name whenever the workers ahead of it were loaded.
C6_FailsClosed ==
    [][(LoadAgents /\ \E i \in 1..Len(req_agents_dedup.val) : UnknownAt(i)) =>
        LET first == CHOOSE i \in 1..Len(req_agents_dedup.val) :
                        UnknownAt(i) /\ \A j \in 1..(i - 1) : ~UnknownAt(j)
            ahead == SubSeq(req_agents_dedup.val, 1, first - 1)
        IN /\ pc' = "raised"
           /\ exc' # ""
           /\ load_agents(directory, agents, ahead).exc = "" => exc' = "KeyError"
           /\ agent_instances' = agent_instances
           /\ ~agent_instances'.set]_vars

\* a plan whose last worker is unknown, after two that were loaded
C6_Witness ==
    /\ pc = "raised"
    /\ exc = "KeyError"
    /\ req_agents_dedup.set
    /\ Len(req_agents_dedup.val) = 3
    /\ HasKey(Registry, req_agents_dedup.val[1].k)
    /\ HasKey(Registry, req_agents_dedup.val[2].k)
    /\ ~agent_instances.set

\* C7: when every worker of the aggregated plan is in the registry, the team
\* has one instance per aggregated assignment, in the plan's order.
C7_TeamPerAssignment ==
    [][(LoadAgents /\ \A i \in 1..Len(req_agents_dedup.val) : ~UnknownAt(i)) =>
        /\ pc' = "returned"
        /\ agent_instances'.set
        /\ [i \in 1..Len(agent_instances'.val) |-> agent_instances'.val[i].cls]
                = Keys(req_agents_dedup.val)]_vars

\* C8: in an assembled team Engineer is built with n_borg = 5 and
\* use_code_review = (QaEngineer is a key of the aggregated plan), and every
\* other worker without arguments.
C8_EngineerConfiguration ==
    agent_instances.set =>
        \A i \in 1..Len(agent_instances.val) :
            LET inst == agent_instances.val[i] IN
            IF inst.cls = "Engineer"
            THEN inst.kwargs = [n_borg |-> 5,
                                use_code_review |->
                                    \E j \in 1..Len(req_agents_dedup.val) :
                                        req_agents_dedup.val[j].k = "QaEngineer"]
            ELSE inst.kwargs = <<>>

\* a team in which QaEngineer comes after Engineer
C8_Witness ==
    /\ agent_instances.set
    /\ Len(agent_instances.val) = 3
    /\ agent_instances.val[1].cls = "Engineer"
    /\ agent_instances.val[1].kwargs.use_code_review
    /\ agent_instances.val[3].cls = "QaEngineer"

----------------------------------------------------------------------------
(* Properties of the feedback loop *)

\* C9: with FEEDBACK_REGISTRY.collect_feedback off, llm_feedback_loop asks
\* the reviewer nothing and changes neither a Prompt (history,
\* adjusted_prompt) nor the log.
C9_IdentityWhenOff ==
    [][(AskLLM(DomainResponses, FbPlanResponses) /\ ~collect_feedback_flag) =>
        /\ consulted' = consulted
        /\ pc' \notin {"classify_review", "assign_review"}
        /\ prompts' = prompts
        /\ logs' = logs]_vars

\* an answer passed through with the flag off, the log holding earlier rounds
C9_Witness ==
    /\ ~collect_feedback_flag
    /\ pc = "classified"
    /\ consulted > 0
    /\ Len(logs) > 0

\* C10: the key and the prompt of a Prompt never change.
C10_KeyAndPromptStable ==
    [][\A p \in 1..Len(prompts) :
        /\ prompts'[p].key = prompts[p].key
        /\ prompts'[p].prompt = prompts[p].prompt]_vars

\* a Prompt after two rounds of refinement
C10_Witness ==
    \E p \in 1..Len(prompts) :
        /\ Len(prompts[p].feedbacks) = 2
        /\ prompts[p].adjusted_prompt.set

Last(s) == s[Len(s)]

\* the history the log holds under a key
LogHistory(lg, ps, key) == ps[Get(lg, key).feedback].feedbacks

\* t is text without its leading and trailing whitespace, otherwise as it is
IsTrimOf(t, text) ==
    \E i \in 1..(Len(text) + 1), j \in 0..Len(text) :
        /\ t = SubSeq(text, i, j)
        /\ \A k \in 1..(i - 1) : text[k] \in Whitespace
        /\ \A k \in (j + 1)..Len(text) : text[k] \in Whitespace
        /\ Len(t) > 0 => (t[1] \notin Whitespace /\ t[Len(t)] \notin Whitespace)

\* the reviewer's verdict of the round a Review step stores is "correct"
VerdictCorrect == ~Last(prompts'[cur].feedbacks).feedback.set

\* C11: with the flag on, when the reviewer rejects the classifier's first
\* answer with a correction and accepts the second, classify_idea has sent
\* exactly two queries (the raw prompt, then the adjusted one), returns the
\* second answer trimmed, and the log holds exactly two history entries under
\* the one key of the Prompt.
C11_TwoRoundClassification ==
    [][(Review /\ pc = "classify_review" /\ Len(queries) = 2 /\ VerdictCorrect) =>
        /\ pc' = "classified"
        /\ queries' = queries
        /\ queries[1].query = prompts[cur].prompt
        /\ prompts[cur].adjusted_prompt.set
        /\ queries[2].query = prompts[cur].adjusted_prompt.val
        /\ queries[2].query # queries[1].query
        /\ domain'.set /\ IsTrimOf(domain'.val, response)
        /\ Cardinality({i \in 1..Len(logs') : logs'[i].k = prompts[cur].key}) = 1
        /\ Len(LogHistory(logs', prompts', prompts[cur].key)) = 2
        /\ LogHistory(logs', prompts', prompts[cur].key)[1].feedback.set
        /\ LogHistory(logs', prompts', prompts[cur].key)[2] =
                [llm_output |-> response, feedback |-> Unset]]_vars

\* a classification accepted at the second answer, which came padded
C11_Witness ==
    /\ collect_feedback_flag
    /\ pc = "classified"
    /\ Len(queries) = 2
    /\ Len(prompts[cur].feedbacks) = 2
    /\ Len(Last(prompts[cur].feedbacks).llm_output) = 3
    /\ domain = Some(<<"software engineering">>)

\* the queries of the run that assign_agents sent (stream=True)
PlanQueries(qs) == SelectSeq(qs, LAMBDA q : q.stream)

\* C12: with the flag on, when the reviewer rejects the first plan answer and
\* accepts the second, assign_agents has sent exactly two queries, the second
\* with the adjusted prompt, and returns the parsed plan of the second answer.
C12_TwoRoundPlan ==
    [][(Review /\ pc = "assign_review" /\ Len(PlanQueries(queries)) = 2
            /\ VerdictCorrect) =>
        /\ queries' = queries
        /\ PlanQueries(queries)[2].query = prompts[cur].adjusted_prompt.val
        /\ pc' = "aggregate"
        /\ exc' = ""
        /\ [i \in 1..Len(req_agents') |-> heap'[req_agents'[i]]]
                = parse_assign_agents2(response)]_vars

\* the texts of parts occur in text one after the other, from position from on
RECURSIVE EmbedsInOrder(_, _, _)
EmbedsInOrder(parts, text, from) ==
    IF Len(parts) = 0 THEN TRUE
    ELSE LET part == Head(parts) IN
         \E o \in from..(Len(text) - Len(part) + 1) :
            /\ SubSeq(text, o, o + Len(part) - 1) = part
            /\ EmbedsInOrder(Tail(parts), text, o + Len(part))

\* response and correction of every round of a history, round after round
RECURSIVE PairsOf(_)
PairsOf(feedbacks) ==
    IF Len(feedbacks) = 0 THEN <<>>
    ELSE <<Head(feedbacks).llm_output, Head(feedbacks).feedback.val>>
         \o PairsOf(Tail(feedbacks))

\* C13: when the reviewer rejects the k-th answer, the new adjusted prompt
\* embeds, in this order, the Prompt's original text, the answer and the
\* correction of each of the k-1 earlier rounds, the current answer and the
\* current correction; it does not contain the previous adjusted prompt.
C13_AdjustedEmbedsHistory ==
    [][(Review /\ ~VerdictCorrect) =>
        LET new == prompts'[cur].adjusted_prompt
            correction == Last(prompts'[cur].feedbacks).feedback.val
        IN /\ new.set
           /\ EmbedsInOrder(<<prompts[cur].prompt>> \o PairsOf(prompts[cur].feedbacks)
                                \o <<response, correction>>, new.val, 1)
           /\ prompts[cur].adjusted_prompt.set =>
                ~EmbedsInOrder(<<prompts[cur].adjusted_prompt.val>>, new.val, 1)]_vars

\* a third answer rejected after two different answers were
C13_Witness ==
    \E p \in 1..Len(prompts) :
        /\ Len(prompts[p].feedbacks) = 3
        /\ prompts[p].adjusted_prompt.set
        /\ prompts[p].feedbacks[1].llm_output # prompts[p].feedbacks[2].llm_output
        /\ prompts[p].feedbacks[3].feedback.set

\* the queries of the run sent by the stage under review
StageQueries(qs, at) == SelectSeq(qs, LAMBDA q : q.stream = (at = "assign_review"))

\* C14: with the flag on, a stage calls the reasoning service again exactly
\* when the reviewer rejected the latest answer and ends at the first
\* accepted one: at that point n rejected rounds and the accepted one have
\* been stored and the stage has sent n + 1 queries; the stage returns a
\* result only on an accepted answer.
C14_RefineUntilCorrect ==
    [][/\ Review =>
            /\ ~VerdictCorrect <=>
                    pc' = (IF pc = "classify_review" THEN "classify" ELSE "assign")
            /\ VerdictCorrect <=> pc' \in {"classified", "aggregate", "raised"}
            /\ VerdictCorrect =>
                LET h == prompts'[cur].feedbacks IN
                /\ \A i \in 1..(Len(h) - 1) : h[i].feedback.set
                /\ Len(StageQueries(queries', pc)) = Len(h)
       /\ (collect_feedback_flag /\ pc \in {"classify", "classify_review",
                                              "assign", "assign_review"}
              /\ pc' \in {"classified", "aggregate"}) =>
            (Review /\ VerdictCorrect)
       /\ (collect_feedback_flag /\ pc \in {"classify", "assign"}
              /\ Len(prompts[cur].feedbacks) > 0) =>
            Last(prompts[cur].feedbacks).feedback.set]_vars

\* two answers rejected, the third accepted: three queries
C14_Witness ==
    /\ collect_feedback_flag
    /\ pc = "classified"
    /\ Len(queries) = 3
    /\ Len(prompts[cur].feedbacks) = 3
    /\ prompts[cur].feedbacks[2].feedback.set
    /\ ~prompts[cur].feedbacks[3].feedback.set

IsPrefix(a, b) == Len(a) <= Len(b) /\ SubSeq(b, 1, Len(a)) = a

\* C15: the log only grows: every key keeps its place and the entries logged
\* under it, and a reviewer round appends exactly one entry to the history
\* logged under the key of its Prompt.
C15_LogAppendOnly ==
    [][/\ \A i \in 1..Len(logs) :
            /\ i <= Len(logs')
            /\ logs'[i].k = logs[i].k
            /\ IsPrefix(LogHistory(logs, prompts, logs[i].k),
                        LogHistory(logs', prompts', logs[i].k))
       /\ Review =>
            LET key == prompts[cur].key
                before == IF HasKey(logs, key) THEN LogHistory(logs, prompts, key)
                          ELSE <<>>
            IN /\ HasKey(logs', key)
               /\ Len(LogHistory(logs', prompts', key)) = Len(before) + 1
               /\ IsPrefix(before, LogHistory(logs', prompts', key))]_vars

\* C16: classify_idea returns the accepted answer of the reasoning service
\* with its surrounding whitespace removed and nothing else changed: case is
\* kept and a label outside SUPPORTED_DOMAINS is returned as it is.
C16_TrimmedVerbatim ==
    [][/\ (Review /\ pc = "classify_review" /\ VerdictCorrect) =>
            /\ pc' = "classified"
            /\ domain'.set
            /\ IsTrimOf(domain'.val, response)
       /\ (AskLLM(DomainResponses, FbPlanResponses) /\ pc = "classify"
              /\ ~collect_feedback_flag) =>
            /\ pc' = "classified"
            /\ domain'.set
            /\ \E r \in DomainResponses : IsTrimOf(domain'.val, r)]_vars

\* the reviewer accepted a label that differs from the supported one by case
C16_Witness ==
    /\ collect_feedback_flag
    /\ pc = "classified"
    /\ domain = Some(<<"Software Engineering">>)
    /\ domain.val \notin SUPPORTED_DOMAINS

\* C17: when the classified domain is not exactly "software engineering",
\* generate_dynamic_sop ends the process with exit status 1: no further query
\* is sent, no plan is parsed or aggregated, no team is assembled, and
\* nothing follows the exit.
C17_UnsupportedDomainExits ==
    [][/\ (pc = "classified" /\ domain.val # <<"software engineering">>) =>
            /\ pc' = "exited"
            /\ exc' = "SystemExit(1)"
            /\ queries' = queries
            /\ llm_calls' = llm_calls
            /\ UNCHANGED <<sopVars, planVars, prompts, logs, consulted>>
       /\ pc' = "exited" =>
            /\ domain'.val # <<"software engineering">>
            /\ PlanQueries(queries') = <<>>
       /\ pc = "exited" => FALSE]_vars

\* the process exited on a label that differs from the supported one by case
C17_Witness ==
    /\ pc = "exited"
    /\ exc = "SystemExit(1)"
    /\ domain = Some(<<"Software Engineering">>)
    /\ Len(queries) = 1
    /\ ~req_agents_dedup.set
    /\ ~agent_instances.set

\* the keys of a subtask object as the query's schema lists them
RequiredKeys ==
    {"subtask_number", "subtask_description", "agent", "skill", "actions",
     "watch_items", "trigger"}

\* C18: every object of a plan that assign_agents returned carries all the
\* required keys.
C18_ReturnedPlanWellFormed ==
    \A i \in 1..Len(req_agents) : DOMAIN heap[req_agents[i]] = RequiredKeys

----------------------------------------------------------------------------
(* Properties of the scanner and the registry *)

\* the .py files of a directory that ast.parse accepts
ValidFiles(dir) == SelectSeq(dir, LAMBDA f : endswith_py(f.file_name) /\ f.parseable)

\* the records of the Role classes of a list of files, file after file
RECURSIVE RecordsOf(_)
RecordsOf(files) ==
    IF Len(files) = 0 THEN <<>>
    ELSE process_file(Head(files)).records \o RecordsOf(Tail(files))

\* C19: the scan of a directory returns the records of all its valid worker
\* definitions, whatever unparseable files stand among them: such a file is
\* passed over and the scan does not fail.
C19_FailureIsolation ==
    [][Construct =>
        /\ exc' = ""
        /\ pc' = "idle"
        /\ agents' = RecordsOf(ValidFiles(directory))]_vars

\* the last record of the scan that names a worker
LastRecord(records, name) ==
    records[CHOOSE i \in 1..Len(records) :
                /\ records[i].agent = name
                /\ \A j \in (i + 1)..Len(records) : records[j].agent # name]

\* C20: the registry get_all_agents builds has unique keys, has a key for
\* every worker name of the scan and no other, and maps a name that several
\* records carry to the fields of the last of them in scan order.
C20_RegistryLastWins ==
    all_agents.set =>
        LET reg == all_agents.val IN
        /\ \A a, b \in 1..Len(reg) : reg[a].k = reg[b].k => a = b
        /\ {reg[a].k : a \in 1..Len(reg)} = {agents[i].agent : i \in 1..Len(agents)}
        /\ \A a \in 1..Len(reg) :
            LET rec == LastRecord(agents, reg[a].k) IN
            reg[a].v = [skill |-> rec.skill, action |-> rec.action,
                        watch |-> rec.watch, file_name |-> rec.file_name]

\* a registry built from a scan that found Engineer twice
C20_Witness ==
    /\ all_agents.set
    /\ Cardinality({i \in 1..Len(agents) : agents[i].agent = "Engineer"}) = 2
    /\ Len(all_agents.val) = 4
    /\ Get(all_agents.val, "Engineer").skill = "write firmware"

----------------------------------------------------------------------------
(* Properties of the run as a whole *)

\* C21: no step of a run adds, removes or changes a scanned record, and the
\* registry load_agents builds is the one of the scan at construction, the
\* same in every run.
C21_ScanReadOnly ==
    [][/\ agents' = agents
       /\ agents' = get_all_role_summary(directory').records
       /\ LoadAgents => all_agents' = Some(Registry)
       /\ all_agents.set => all_agents' = all_agents]_vars

\* a second run has assembled its team, with reviewer rounds in between
C21_Witness ==
    /\ runs = 2
    /\ pc = "returned"
    /\ consulted > 0
    /\ all_agents.set
    /\ all_agents.val = get_all_agents(get_all_role_summary(directory).records)

\* position of a statement of generate_dynamic_sop in the order of its stages
StageRank(at) ==
    CASE at \in {"classify", "classify_review"} -> 1
      [] at = "classified" -> 2
      [] at \in {"assign", "assign_review"} -> 3
      [] at = "aggregate" -> 4
      [] at = "load" -> 5
      [] OTHER -> 6

\* C22: within a run the stages follow one another in the order classify,
\* plan, aggregate, assemble and none is entered again; the plan query is
\* built from the final classification and sent after every classification
\* query, the aggregation takes the parsed plan and the assembly takes the
\* aggregated plan.
C22_StagesInOrder ==
    [][/\ (~Idle /\ pc # "exited") =>
            /\ StageRank(pc') >= StageRank(pc)
            /\ StageRank(pc') > StageRank(pc) =>
                    \/ StageRank(pc') = StageRank(pc) + 1
                    \/ pc' \in {"raised", "exited"}
       /\ pc' = "assign" =>
            /\ domain'.set /\ domain'.val = <<"software engineering">>
            /\ prompts'[cur'].prompt = assign_prompt(idea', domain'.val, agents')
       /\ \A i, j \in 1..Len(queries') :
            (i < j /\ queries'[i].stream) => queries'[j].stream
       /\ (Len(queries') > Len(queries) /\ Last(queries').stream) =>
            (pc \in {"assign"} /\ domain.set)
       /\ pc' = "load" =>
            /\ pc = "aggregate"
            /\ Content(heap', req_agents_dedup'.val)
                    = Content(agg_agents(heap, req_agents).h,
                              agg_agents(heap, req_agents).d)
       /\ (pc' = "returned" /\ pc # "returned") =>
            /\ pc = "load"
            /\ [i \in 1..Len(agent_instances'.val) |-> agent_instances'.val[i].cls]
                    = Keys(req_agents_dedup.val)]_vars

\* a run that went through every stage, with a refinement round in the first
C22_Witness ==
    /\ pc = "returned"
    /\ Len(queries) = 3
    /\ ~queries[2].stream
    /\ queries[3].stream
    /\ Len(agent_instances.val) >= 2

\* C23: when llm.aask raises in classify_idea or assign_agents the run ends
\* with that exception: the reviewer is not asked about the failed call, no
\* Prompt and no log entry changes, no team is assigned, and nothing of the
\* run follows (no further call of the reasoning service, no reviewer round).
C23_FailureSurfaced ==
    [][/\ LLMFails =>
            /\ pc' = "raised"
            /\ exc' = "ReasoningServiceError"
            /\ Len(queries') = Len(queries) + 1
            /\ consulted' = consulted
            /\ prompts' = prompts
            /\ logs' = logs
            /\ UNCHANGED <<sopVars, planVars>>
       /\ (pc = "raised" /\ exc = "ReasoningServiceError") =>
            /\ llm_calls' = llm_calls
            /\ consulted' = consulted
            /\ agent_instances' = agent_instances
            /\ runs' = runs + 1 \/ collect_feedback_flag' # collect_feedback_flag]_vars

\* the second call of a refined classification failed
C23_Witness ==
    /\ pc = "raised"
    /\ exc = "ReasoningServiceError"
    /\ collect_feedback_flag
    /\ depth = 2
    /\ Len(queries) = 2
    /\ Len(prompts[cur].feedbacks) = 1
    /\ ~agent_instances.set

\* C24: with the flag off a stage is a single round: the answer to its query
\* is returned at once, whatever Prompt the stage was called with.
C24_SingleRoundWhenOff ==
    [][(AskLLM(StageDomainResponses, StagePlanResponses) /\ ~collect_feedback_flag) =>
        /\ depth = 1
        /\ pc' = (IF pc = "classify" THEN "classified" ELSE "aggregate")
        /\ Len(queries') = 1]_vars

\* the names the calls of attr declare in a list of statements, down to
\* `levels` if statements deep
RECURSIVE DeclaredIn(_, _, _)
DeclaredIn(stmts, attr, levels) ==
    IF Len(stmts) = 0 THEN <<>>
    ELSE LET stmt == Head(stmts) IN
         (IF stmt.kind = "call" /\ stmt.attr = attr THEN stmt.elts
          ELSE IF stmt.kind = "if" /\ levels > 0
          THEN DeclaredIn(stmt.body, attr, levels - 1)
          ELSE <<>>)
         \o DeclaredIn(Tail(stmts), attr, levels)

\* the Role classes of a list of files, file after file
RECURSIVE ClassesOf(_)
ClassesOf(files) ==
    IF Len(files) = 0 THEN <<>>
    ELSE Head(files).classes \o ClassesOf(Tail(files))

\* C25: the record of a scanned worker lists the actions its set_actions
\* calls declare and the signals its _watch calls declare, at the top level
\* of a method and directly inside an if statement, and none declared
\* deeper.
C25_ConditionalCalls ==
    [][(Construct /\ pc' = "idle") =>
        LET classes == ClassesOf(ValidFiles(directory)) IN
        /\ Len(agents') = Len(classes)
        /\ \A i \in 1..Len(classes) :
            /\ agents'[i].agent = classes[i].name
            /\ agents'[i].action = DeclaredIn(classes[i].body, "set_actions", 1)
            /\ agents'[i].watch = DeclaredIn(classes[i].body, "_watch", 1)]_vars

\* C26: a run started with the collect_feedback option on has the flag of
\* the registry on, and the reviewer is asked about every answer of the
\* reasoning service in it; with the option off the reviewer is never asked.
C26_OptionTurnsFlagOn ==
    [][/\ GenerateRepo => collect_feedback_flag' = collect_feedback_opt
       /\ AskLLM(DomainResponses, FbPlanResponses) =>
            /\ collect_feedback_opt =>
                    /\ consulted' = consulted + 1
                    /\ pc' \in {"classify_review", "assign_review"}
            /\ ~collect_feedback_opt =>
                    /\ consulted' = consulted
                    /\ pc' \notin {"classify_review", "assign_review"}]_vars

\* C27: with the flag on, after a reviewer round the adjusted prompt of the
\* Prompt is set exactly when the round's verdict was incorrect, and when a
\* stage returns its result the adjusted prompt is None and the last round
\* of the history has no correction.
C27_AdjustedIffIncorrect ==
    [][/\ Review =>
            LET round == Last(prompts'[cur].feedbacks) IN
            /\ round.llm_output = response
            /\ prompts'[cur].adjusted_prompt.set <=> round.feedback.set
       /\ (collect_feedback_flag /\ pc \in {"classify_review", "assign_review"}
              /\ pc' \in {"classified", "aggregate"}) =>
            /\ ~prompts'[cur].adjusted_prompt.set
            /\ ~Last(prompts'[cur].feedbacks).feedback.set]_vars

\* a plan accepted at once, after a classification that took two rounds
C27_Witness ==
    /\ collect_feedback_flag
    /\ pc = "aggregate"
    /\ Len(prompts) = 2
    /\ Len(prompts[1].feedbacks) = 2
    /\ prompts[1].feedbacks[1].feedback.set
    /\ ~prompts[1].adjusted_prompt.set
    /\ ~prompts[2].adjusted_prompt.set
    /\ Len(prompts[2].feedbacks) = 1

====
